---- MODULE Spec2Model ----
(***************************************************************************)
(* Model of the Telegram -> Codex relay:                                   *)
(*   - the per-chat promise chain of telegram-relay.ts (enqueueByChat and  *)
(*     the message task body it runs), specification Spec / FairSpec;      *)
(*   - one turn of codex-runner.ts (runCodexTurn), specification SpecTurn; *)
(*   - the SessionStore of session-store.ts under concurrent callers,      *)
(*     specification SpecStore;                                            *)
(*   - the handlers of one chat (messages, /new and /reset) over the       *)
(*     session registry, specification SpecChat;                           *)
(*   - splitForTelegram of telegram-relay.ts over every short text,        *)
(*     specification SpecSplit / FairSpecSplit;                            *)
(*   - the allow-list of config.ts and the authorization check of every    *)
(*     handler, specification SpecAuth;                                    *)
(*   - buildArgs of codex-runner.ts, specification SpecArgs.               *)
(***************************************************************************)
EXTENDS Integers, Sequences, FiniteSets, TLC

\* ------------------------------------------------------------------ bounds
NumChats == 2
MaxTasks == 3
MaxLines == 3
MaxOps == 3
MaxMsgs == 2
MaxResets == 1
MaxText == 6
MaxSegment == 5
MaxRaw == 3
MaxImages == 2
MaxDownloads == 1

Chats == 1..NumChats
TaskIds == 1..MaxTasks
\* Promise.resolve(): the already fulfilled promise a chain starts from.
NoTask == 0

VARIABLES
    \* ---- telegram-relay.ts
    inFlightByChat, \* chat -> task whose promise `next` is stored (NoTask: no entry)
    numTasks,       \* number of calls of enqueueByChat so far; tasks are 1..numTasks
    chatOf,         \* task -> chatId argument of its enqueueByChat call
    previous,       \* task -> the promise `previous` its chain hangs on
    pc,             \* task -> position of its chain / of its task body
    taskResult,     \* task -> state of the promise returned by task()
    chainValue,     \* task -> state of the promise after .catch(...)
    nextPromise,    \* task -> state of the promise `next`
    submitted,      \* chat -> tasks in the order enqueueByChat was called
    startLog,       \* chat -> tasks in the order their body started
    turnLog,        \* chat -> task of every runCodexTurn invocation, in order
    \* ---- codex-runner.ts
    tpc,            \* position inside runCodexTurn
    inputSessionId, \* input.sessionId
    tempDir,        \* the directory of fs.mkdtemp
    outputFile,     \* contents of assistant-message.txt
    sessionId, jsonErrors, stderrLines, stdoutLines,
    consumed,       \* every line handed to consumeLine, in arrival order
    exitCode, reply, thrown, returned

queueVars == <<inFlightByChat, numTasks, chatOf, previous, pc, taskResult,
               chainValue, nextPromise, submitted, startLog, turnLog>>
turnVars == <<tpc, inputSessionId, tempDir, outputFile, sessionId, jsonErrors,
              stderrLines, stdoutLines, consumed, exitCode, reply, thrown, returned>>

OpIds == 1..MaxOps
\* this.writeQueue = Promise.resolve(): the already fulfilled promise the queue starts from.
NoOp == 0

VARIABLES
    \* ---- session-store.ts
    loaded,         \* this.loaded
    loadPhase,      \* the one run of loadOnce past its guard: idle, reading, done, failed
    sessions,       \* this.sessions: key -> session id (NoSession: no entry)
    writeQueue,     \* this.writeQueue: the operation whose write promise it holds
    sessionsFile,   \* the durable document at this.filePath
    ops             \* the calls of get / set / clear so far, in call order; of each:
                    \*   kind, key, arg: method, String(chatId), sessionId argument
                    \*   pc: position inside get / set / clear
                    \*   prev: the promise its write callback hangs on
                    \*   payload: the snapshot its write callback serialized
                    \*   result: value returned by get
                    \*   afterFailedLoad: it was called after the load had failed

storeVars == <<loaded, loadPhase, sessions, writeQueue, sessionsFile, ops>>

MsgIds == 1..MaxMsgs
ResetIds == 1..MaxResets

VARIABLES
    \* ---- telegram-relay.ts, the handlers of one chat over the session registry
    msgs,           \* the messages that arrived, in arrival order; of each:
                    \*   pc: position of its handler / of its task body
                    \*   priorSessionId, activeSessionId: the task's variables
                    \*   delivered: what its task sent to the chat: "reply", "error"
                    \*   afterReset: it arrived after an acknowledged reset, as the first
                    \*   writeFailure: a durable write of its sessions.set failed
                    \*   turns: the calls of runCodexTurn its task made
                    \*   error: what its try block threw
                    \*   errorReply: the text its catch block sent
                    \*   atEnqueue: the chat's mapping when its task was enqueued
                    \*   atStart: the chat's mapping when its task body started
                    \*   dirs: the directories downloadTelegramFile created for it
                    \*   cleanup: the length of the task's `cleanup` array
                    \*   removed: the directories its finally block removed
                    \*   recorded: the session id its last completed sessions.set stored
    resets,         \* the /new and /reset commands that arrived: position of the handler
    resetAcked,     \* a reset was acknowledged and no message has arrived since
    crashed         \* the process was terminated by an unhandled rejection

chatVars == <<msgs, resets, resetAcked, crashed>>

VARIABLES
    \* ---- telegram-relay.ts, one call of splitForTelegram
    textArg,        \* the argument text, as the sequence of its characters
    max,            \* the argument max
    remaining,      \* the local variable remaining
    chunks,         \* the local variable chunks; when the call is done, its result
    iterations,     \* the number of times the body of the while loop has run
    cuts,           \* the values the local variable cut had at line 71, in order
    spc             \* position inside splitForTelegram

splitVars == <<textArg, max, remaining, chunks, iterations, cuts, spc>>

VARIABLES
    \* ---- config.ts and the authorization check of telegram-relay.ts
    allowedRaw,     \* process.env.ALLOWED_CHAT_IDS, as the sequence of its characters
    allowedChatIds, \* relayConfig.allowedChatIds
    refused,        \* the chats that were sent the text of unauthorizedMessage
    greeted         \* the chats that were sent the reply of /start

authVars == <<allowedRaw, allowedChatIds, refused, greeted>>

VARIABLES
    \* ---- codex-runner.ts, one call of buildArgs
    turnInput,      \* the argument input and the relayConfig fields buildArgs reads
    args            \* the array buildArgs returned; empty before the call

argsVars == <<turnInput, args>>

storeAndChatVars == <<storeVars, chatVars, splitVars, authVars, argsVars>>
nonStoreVars == <<queueVars, turnVars, chatVars, splitVars, authVars, argsVars>>

vars == <<queueVars, turnVars, storeVars, chatVars, splitVars, authVars, argsVars>>

\* ================================================================ the queue

TryPhases == {"payload", "turn", "retryTurn", "send"}
BodyPhases == TryPhases \cup {"catch"}
ChainPhases == {"settled", "finalized", "done"}

InitQueue ==
    /\ inFlightByChat = [c \in Chats |-> NoTask]
    /\ numTasks = 0
    /\ chatOf = [t \in TaskIds |-> 0]
    /\ previous = [t \in TaskIds |-> NoTask]
    /\ pc = [t \in TaskIds |-> "unused"]
    /\ taskResult = [t \in TaskIds |-> "pending"]
    /\ chainValue = [t \in TaskIds |-> "pending"]
    /\ nextPromise = [t \in TaskIds |-> "pending"]
    /\ submitted = [c \in Chats |-> <<>>]
    /\ startLog = [c \in Chats |-> <<>>]
    /\ turnLog = [c \in Chats |-> <<>>]

\* State of a promise a chain can hang on.
PromiseState(p) == IF p = NoTask THEN "fulfilled" ELSE nextPromise[p]

\* Mutants of Previous: every chain starts from Promise.resolve(); one chain for all chats.
PreviousNone(chatId) == NoTask
PreviousGlobal(chatId) == numTasks

\* inFlightByChat.get(chatId) ?? Promise.resolve()
Previous(chatId) == inFlightByChat[chatId]

\* previous.then(task, task): task is both the fulfilment and the rejection handler.
ThenFires(state) == state \in {"fulfilled", "rejected"}

\* Mutant of AfterCatch: no .catch in the chain.
AfterCatchUnhandled(state) == state

\* .catch((error) => console.error(...)): a rejection becomes a fulfilment.
AfterCatch(state) == "fulfilled"

\* Mutants of FinallyCleanup: the entry is never deleted; it is deleted whoever owns it.
FinallyKeep(map, chatId, next) == map
FinallyAlways(map, chatId, next) == [map EXCEPT ![chatId] = NoTask]

\* The .finally callback: delete the entry only if it still is this chain's promise.
FinallyCleanup(map, chatId, next) ==
    IF map[chatId] = next THEN [map EXCEPT ![chatId] = NoTask] ELSE map

\* Mutant of InFlightSet: the entry of a busy chat is left as it is.
InFlightSetIfAbsent(map, chatId, next) ==
    IF map[chatId] = NoTask THEN [map EXCEPT ![chatId] = next] ELSE map

\* inFlightByChat.set(chatId, next)
InFlightSet(map, chatId, next) == [map EXCEPT ![chatId] = next]

historyVars == <<submitted, startLog, turnLog>>
promiseVars == <<taskResult, chainValue, nextPromise>>

\* Mutant of enqueueByChat: a message that arrives while the chat is busy is not chained
\* (its chain hangs on a promise that never settles).
EnqueueDropBusy(chatId) ==
    /\ numTasks < MaxTasks
    /\ LET t == numTasks + 1 IN
        /\ numTasks' = t
        /\ chatOf' = [chatOf EXCEPT ![t] = chatId]
        /\ previous' = [previous EXCEPT ![t] =
                           IF inFlightByChat[chatId] = NoTask THEN NoTask ELSE t]
        /\ pc' = [pc EXCEPT ![t] = "queued"]
        /\ inFlightByChat' = IF inFlightByChat[chatId] = NoTask
                               THEN [inFlightByChat EXCEPT ![chatId] = t]
                               ELSE inFlightByChat
        /\ submitted' = [submitted EXCEPT ![chatId] = Append(@, t)]
    /\ UNCHANGED <<promiseVars, startLog, turnLog, turnVars, storeAndChatVars>>

\* bot.on("message") reaching enqueueByChat(chatId, task)
enqueueByChat(chatId) ==
    /\ numTasks < MaxTasks
    /\ LET t == numTasks + 1 IN
        /\ numTasks' = t
        /\ chatOf' = [chatOf EXCEPT ![t] = chatId]
        /\ previous' = [previous EXCEPT ![t] = Previous(chatId)]
        /\ pc' = [pc EXCEPT ![t] = "queued"]
        /\ inFlightByChat' = InFlightSet(inFlightByChat, chatId, t)
        /\ submitted' = [submitted EXCEPT ![chatId] = Append(@, t)]
    /\ UNCHANGED <<promiseVars, startLog, turnLog, turnVars, storeAndChatVars>>

\* Mutant of CanStart: previous.then(task(), task()) calls the task at once.
CanStartEager(t) == pc[t] = "queued"

\* The then-callback of the chain fires: task() is called.
CanStart(t) == pc[t] = "queued" /\ ThenFires(PromiseState(previous[t]))

StartTask(t) ==
    /\ CanStart(t)
    /\ pc' = [pc EXCEPT ![t] = "payload"]
    /\ startLog' = [startLog EXCEPT ![chatOf[t]] = Append(@, t)]
    /\ UNCHANGED <<inFlightByChat, numTasks, chatOf, previous, promiseVars,
                   submitted, turnLog, turnVars, storeAndChatVars>>

\* buildPayload, saveChatMessage, sessions.get, buildSupabasePromptContext succeeded:
\* runCodexTurn is called.
CallRunCodexTurn(t) ==
    /\ pc[t] = "payload"
    /\ pc' = [pc EXCEPT ![t] = "turn"]
    /\ turnLog' = [turnLog EXCEPT ![chatOf[t]] = Append(@, t)]
    /\ UNCHANGED <<inFlightByChat, numTasks, chatOf, previous, promiseVars,
                   submitted, startLog, turnVars, storeAndChatVars>>

\* looksLikeMetaCapabilityReply(outgoingReply) && !asksForCapabilityOrPolicy(userContent)
NeedsFocusedRetry(looksMeta, asksPolicy) == looksMeta /\ ~asksPolicy

\* runCodexTurn returned; sessions.set and processMemoryIntents succeeded; the retry
\* decision is taken and runFocusedRetry calls runCodexTurn again, or not.
TurnReturns(t) ==
    /\ pc[t] = "turn"
    /\ \E looksMeta \in BOOLEAN, asksPolicy \in BOOLEAN :
        IF NeedsFocusedRetry(looksMeta, asksPolicy)
        THEN /\ pc' = [pc EXCEPT ![t] = "retryTurn"]
             /\ turnLog' = [turnLog EXCEPT ![chatOf[t]] = Append(@, t)]
        ELSE /\ pc' = [pc EXCEPT ![t] = "send"]
             /\ UNCHANGED turnLog
    /\ UNCHANGED <<inFlightByChat, numTasks, chatOf, previous, promiseVars,
                   submitted, startLog, turnVars, storeAndChatVars>>

\* runFocusedRetry's runCodexTurn returned.
RetryReturns(t) ==
    /\ pc[t] = "retryTurn"
    /\ pc' = [pc EXCEPT ![t] = "send"]
    /\ UNCHANGED <<inFlightByChat, numTasks, chatOf, previous, promiseVars,
                   historyVars, turnVars, storeAndChatVars>>

\* saveChatMessage and sendResponse succeeded; the finally block ran: the promise of
\* task() is fulfilled.
SendDone(t) ==
    /\ pc[t] = "send"
    /\ pc' = [pc EXCEPT ![t] = "settled"]
    /\ taskResult' = [taskResult EXCEPT ![t] = "fulfilled"]
    /\ UNCHANGED <<inFlightByChat, numTasks, chatOf, previous, chainValue, nextPromise,
                   historyVars, turnVars, storeAndChatVars>>

\* Any awaited step inside the try block throws: control goes to the catch block.
BodyThrows(t) ==
    /\ pc[t] \in TryPhases
    /\ pc' = [pc EXCEPT ![t] = "catch"]
    /\ UNCHANGED <<inFlightByChat, numTasks, chatOf, previous, promiseVars,
                   historyVars, turnVars, storeAndChatVars>>

\* catch (error) { await ctx.reply(`Error: ...`) } finally { ... }: the error reply is
\* sent, or ctx.reply throws too and the promise of task() is rejected.
CatchBlock(t) ==
    /\ pc[t] = "catch"
    /\ pc' = [pc EXCEPT ![t] = "settled"]
    /\ \E replyThrows \in BOOLEAN :
        taskResult' = [taskResult EXCEPT ![t] =
                         IF replyThrows THEN "rejected" ELSE "fulfilled"]
    /\ UNCHANGED <<inFlightByChat, numTasks, chatOf, previous, chainValue, nextPromise,
                   historyVars, turnVars, storeAndChatVars>>

\* The promise of previous.then(task, task) follows the task's promise, .catch handles
\* it and the .finally callback runs.
FinallyStep(t) ==
    /\ pc[t] = "settled"
    /\ pc' = [pc EXCEPT ![t] = "finalized"]
    /\ chainValue' = [chainValue EXCEPT ![t] = AfterCatch(taskResult[t])]
    /\ inFlightByChat' = FinallyCleanup(inFlightByChat, chatOf[t], t)
    /\ UNCHANGED <<numTasks, chatOf, previous, taskResult, nextPromise,
                   historyVars, turnVars, storeAndChatVars>>

\* `next` settles with the value that came through .finally.
SettleNext(t) ==
    /\ pc[t] = "finalized"
    /\ pc' = [pc EXCEPT ![t] = "done"]
    /\ nextPromise' = [nextPromise EXCEPT ![t] = chainValue[t]]
    /\ UNCHANGED <<inFlightByChat, numTasks, chatOf, previous, taskResult, chainValue,
                   historyVars, turnVars, storeAndChatVars>>

\* ================================================================ one turn

\* ---- the lines the subprocess can write (raw, before trim)
LineBlank == "   "
LineText == " rate limited "
LineError == "{\"type\":\"error\",\"message\":\"E1\"}"
LineErrorEmpty == "{\"type\":\"error\",\"message\":\"\"}"
LineErrorNoString == "{\"type\":\"error\",\"message\":7}"
LineTurnFailed == "{\"type\":\"turn.failed\",\"error\":{\"message\":\"F1\"}}"
LineStarted1 == "{\"type\":\"thread.started\",\"thread_id\":\"S1\"}"
LineStarted2 == " {\"type\":\"thread.started\",\"thread_id\":\"S2\"}"
LineNull == "null"

StdoutAlphabet == {LineBlank, LineText, LineError, LineErrorEmpty, LineErrorNoString,
                   LineTurnFailed, LineStarted1, LineStarted2, LineNull}
StderrAlphabet == {LineBlank, LineText, LineError}

\* ---- what assistant-message.txt can hold when the subprocess has closed
FileMissing == "<ENOENT>"
FileContents == {FileMissing, " \n", "Hello", " partial answer \n"}

\* String.prototype.trim on the strings above
Trim(s) ==
    CASE s = LineBlank -> ""
      [] s = LineText -> "rate limited"
      [] s = LineStarted2 -> "{\"type\":\"thread.started\",\"thread_id\":\"S2\"}"
      [] s = " \n" -> ""
      [] s = " partial answer \n" -> "partial answer"
      [] OTHER -> s

\* A field that is absent or not a string.
NotString == "<not a string>"

\* JSON.parse(trimmed) as CodexEvent, read the way consumeLine reads it: ok is FALSE
\* when JSON.parse throws or a property read on the parsed value throws (null).
ParseEvent(trimmed) ==
    CASE trimmed = LineError ->
            [ok |-> TRUE, type |-> "error", thread_id |-> NotString,
             message |-> "E1", errorMessage |-> NotString]
      [] trimmed = LineErrorEmpty ->
            [ok |-> TRUE, type |-> "error", thread_id |-> NotString,
             message |-> "", errorMessage |-> NotString]
      [] trimmed = LineErrorNoString ->
            [ok |-> TRUE, type |-> "error", thread_id |-> NotString,
             message |-> NotString, errorMessage |-> NotString]
      [] trimmed = LineTurnFailed ->
            [ok |-> TRUE, type |-> "turn.failed", thread_id |-> NotString,
             message |-> NotString, errorMessage |-> "F1"]
      [] trimmed = LineStarted1 ->
            [ok |-> TRUE, type |-> "thread.started", thread_id |-> "S1",
             message |-> NotString, errorMessage |-> NotString]
      [] trimmed = Trim(LineStarted2) ->
            [ok |-> TRUE, type |-> "thread.started", thread_id |-> "S2",
             message |-> NotString, errorMessage |-> NotString]
      [] OTHER ->
            [ok |-> FALSE, type |-> NotString, thread_id |-> NotString,
             message |-> NotString, errorMessage |-> NotString]

\* `Codex process exited with code ${exitCode}`
GenericMessage(code) ==
    CASE code = 1 -> "Codex process exited with code 1"
      [] code = 2 -> "Codex process exited with code 2"
      [] OTHER -> "Codex process exited with code N"

\* The codes the close event can carry; null when a signal ended the subprocess.
NullCode == -2
CloseCodes == {NullCode, 0, 2}
\* child.once("close", (code) => resolve(code ?? 1))
ExitCodeOf(code) == IF code = NullCode THEN 1 ELSE code

NoExit == -1
NoSession == "<undefined>"
FallbackReply == "Codex completed but returned an empty message."

InitTurnIdle ==
    /\ tpc = "off"
    /\ inputSessionId = NoSession
    /\ tempDir = "none"
    /\ outputFile = FileMissing
    /\ sessionId = NoSession
    /\ jsonErrors = <<>>
    /\ stderrLines = <<>>
    /\ stdoutLines = <<>>
    /\ consumed = <<>>
    /\ exitCode = NoExit
    /\ reply = ""
    /\ thrown = "<none>"
    /\ returned = [reply |-> "<none>", sessionId |-> NoSession]

\* runCodexTurn(input) has been called: input.sessionId is set or not.
InitTurn ==
    /\ tpc = "start"
    /\ inputSessionId \in {NoSession, "S0"}
    /\ tempDir = "none"
    /\ outputFile = FileMissing
    /\ sessionId = NoSession
    /\ jsonErrors = <<>>
    /\ stderrLines = <<>>
    /\ stdoutLines = <<>>
    /\ consumed = <<>>
    /\ exitCode = NoExit
    /\ reply = ""
    /\ thrown = "<none>"
    /\ returned = [reply |-> "<none>", sessionId |-> NoSession]

lineVars == <<sessionId, jsonErrors, stderrLines, stdoutLines, consumed>>

\* Mutant of InitialSessionId: the turn starts without a session id of its own.
InitialSessionIdNone(input) == NoSession

\* let sessionId = input.sessionId
InitialSessionId(input) == input

\* fs.mkdtemp, buildArgs, spawn, `let sessionId = input.sessionId`, readline set up.
SpawnChild ==
    /\ tpc = "start"
    /\ \E created \in BOOLEAN :
        IF created
        THEN /\ tempDir' = "exists"
             /\ sessionId' = InitialSessionId(inputSessionId)
             /\ tpc' = "running"
             /\ UNCHANGED thrown
        ELSE /\ tpc' = "threw"
             /\ thrown' = "mkdtemp failed"
             /\ UNCHANGED <<tempDir, sessionId>>
    /\ UNCHANGED <<inputSessionId, outputFile, jsonErrors, stderrLines, stdoutLines,
                   consumed, exitCode, reply, returned, queueVars, storeAndChatVars>>

\* The arrays after consumeLine(line, source) pushed the trimmed line.
PushLine(lines, trimmed, source, mine) ==
    IF source = mine THEN Append(lines, trimmed) ELSE lines

\* Mutant of PushJsonErrors: a line that is not a JSON event is recorded as an error.
PushJsonErrorsOnParseFailure(errors, event) ==
    IF ~event.ok THEN Append(errors, "invalid JSON")
    ELSE IF event.type = "error" /\ event.message # NotString
         THEN Append(errors, event.message)
    ELSE IF event.type = "turn.failed" /\ event.errorMessage # NotString
         THEN Append(errors, event.errorMessage)
    ELSE errors

\* jsonErrors after the two `if` statements on error and turn.failed events.
PushJsonErrors(errors, event) ==
    LET e1 == IF event.ok /\ event.type = "error" /\ event.message # NotString
              THEN Append(errors, event.message) ELSE errors
    IN IF event.ok /\ event.type = "turn.failed" /\ event.errorMessage # NotString
       THEN Append(e1, event.errorMessage) ELSE e1

\* Mutant of CaptureSession: only the first thread.started event is taken.
CaptureSessionFirst(current, event) ==
    IF event.ok /\ event.type = "thread.started" /\ event.thread_id # NotString
       /\ current = NoSession
    THEN event.thread_id ELSE current

\* sessionId after the `if` statement on thread.started events.
CaptureSession(current, event) ==
    IF event.ok /\ event.type = "thread.started" /\ event.thread_id # NotString
    THEN event.thread_id ELSE current

\* stdoutRl / stderrRl "line" event: consumeLine(line, source)
consumeLine(line, source) ==
    /\ tpc = "running"
    /\ Len(consumed) < MaxLines
    /\ consumed' = Append(consumed, <<line, source>>)
    /\ LET trimmed == Trim(line) IN
        IF trimmed = ""
        THEN UNCHANGED <<sessionId, jsonErrors, stderrLines, stdoutLines>>
        ELSE /\ stderrLines' = PushLine(stderrLines, trimmed, source, "stderr")
             /\ stdoutLines' = PushLine(stdoutLines, trimmed, source, "stdout")
             /\ sessionId' = CaptureSession(sessionId, ParseEvent(trimmed))
             /\ jsonErrors' = PushJsonErrors(jsonErrors, ParseEvent(trimmed))
    /\ UNCHANGED <<tpc, inputSessionId, tempDir, outputFile, exitCode, reply, thrown,
                   returned, queueVars, storeAndChatVars>>

\* child.once("error", reject): the exit promise rejects and runCodexTurn throws from
\* its `await`; nothing after line 108 runs.
ChildError ==
    /\ tpc = "running"
    /\ tpc' = "threw"
    /\ thrown' = "spawn codex ENOENT"
    /\ UNCHANGED <<inputSessionId, tempDir, outputFile, lineVars, exitCode, reply,
                   returned, queueVars, storeAndChatVars>>

\* child.once("close", ...): the subprocess is gone, having written its final message
\* or not; stdoutRl.close(), stderrRl.close().
ChildClose ==
    /\ tpc = "running"
    /\ \E code \in CloseCodes, file \in FileContents :
        /\ exitCode' = ExitCodeOf(code)
        /\ outputFile' = file
    /\ tpc' = "closed"
    /\ UNCHANGED <<inputSessionId, tempDir, lineVars, reply, thrown, returned, queueVars, storeAndChatVars>>

\* try { reply = (await fs.readFile(outputFile)).trim() } catch { reply = "" }
ReadReplyOf(file) == IF file = FileMissing THEN "" ELSE Trim(file)

ReadReply ==
    /\ tpc = "closed"
    /\ reply' = ReadReplyOf(outputFile)
    /\ tpc' = "read"
    /\ UNCHANGED <<inputSessionId, tempDir, outputFile, lineVars, exitCode, thrown,
                   returned, queueVars, storeAndChatVars>>

\* await fs.rm(tempDir, { recursive: true, force: true })
RemoveTempDir ==
    /\ tpc = "read"
    /\ \E removed \in BOOLEAN :
        IF removed
        THEN /\ tempDir' = "removed"
             /\ tpc' = "decide"
             /\ UNCHANGED thrown
        ELSE /\ tpc' = "threw"
             /\ thrown' = "rm failed"
             /\ UNCHANGED tempDir
    /\ UNCHANGED <<inputSessionId, outputFile, lineVars, exitCode, reply, returned,
                   queueVars, storeAndChatVars>>

\* Mutant of Details: the first structured error instead of the last.
DetailsFirstError(errors, errLines, outLines, code) ==
    IF Len(errors) > 0 THEN errors[1]
    ELSE IF Len(errLines) > 0 THEN errLines[Len(errLines)]
    ELSE IF Len(outLines) > 0 THEN outLines[Len(outLines)]
    ELSE GenericMessage(code)

\* xs.at(-1) ?? otherwise
LastOr(xs, otherwise) == IF Len(xs) > 0 THEN xs[Len(xs)] ELSE otherwise

\* jsonErrors.at(-1) ?? stderrLines.at(-1) ?? stdoutLines.at(-1) ?? `Codex process ...`
Details(errors, errLines, outLines, code) ==
    LastOr(errors, LastOr(errLines, LastOr(outLines, GenericMessage(code))))

\* Mutant of TurnFails: every non-zero exit status fails the turn.
TurnFailsOnExit(code, text) == code # 0

\* exitCode !== 0 && reply.length === 0
TurnFails(code, text) == code # 0 /\ text = ""

\* Mutant of ReplyOrFallback: the reply as read, empty or not.
ReplyAsRead(text) == text

\* reply || "Codex completed but returned an empty message."
ReplyOrFallback(text) == IF text = "" THEN FallbackReply ELSE text

\* The decision rule and the return statement.
Decide ==
    /\ tpc = "decide"
    /\ IF TurnFails(exitCode, reply)
       THEN /\ thrown' = Details(jsonErrors, stderrLines, stdoutLines, exitCode)
            /\ tpc' = "threw"
            /\ UNCHANGED returned
       ELSE /\ returned' = [reply |-> ReplyOrFallback(reply), sessionId |-> sessionId]
            /\ tpc' = "returned"
            /\ UNCHANGED thrown
    /\ UNCHANGED <<inputSessionId, tempDir, outputFile, lineVars, exitCode, reply,
                   queueVars, storeAndChatVars>>

\* ================================================================ the session store

\* The chat ids the store is called with and String(chatId), the key of this.sessions.
StoreChats == {1, 2}
KeyOf(chatId) == ToString(chatId)
Keys == {KeyOf(c) : c \in StoreChats}
SessionIds == {"S1", "S2"}
\* The session ids set is called with: those of the turns of this run.
NewSessionIds == {"S2"}

EmptyMap == [k \in Keys |-> NoSession]
\* The durable document: absent (ENOENT), unreadable or not JSON, or a JSON object.
DocMissing == [kind |-> "missing", map |-> EmptyMap]
DocCorrupt == [kind |-> "corrupt", map |-> EmptyMap]
\* JSON.stringify(Object.fromEntries(this.sessions), null, 2) + "\n"
Stringify(map) == [kind |-> "json", map |-> map]
\* A document as an earlier run or an editor may have left it: one mapping and one
\* entry whose value is the empty string.
DocEarlier == [kind |-> "json", map |-> [k \in Keys |-> IF k = KeyOf(1) THEN "S1" ELSE ""]]
InitialDocuments == {DocMissing, DocCorrupt, DocEarlier}

InitStoreFields ==
    /\ loaded = FALSE
    /\ loadPhase = "idle"
    /\ sessions = EmptyMap
    /\ writeQueue = NoOp
    /\ ops = <<>>

\* new SessionStore(filePath), never called.
InitStoreIdle == InitStoreFields /\ sessionsFile = DocMissing

\* new SessionStore(filePath) over whatever document is at filePath.
InitStore == InitStoreFields /\ sessionsFile \in InitialDocuments

\* ================================================================ one chat's handlers

\* No message and no command has arrived.
InitChatIdle ==
    /\ msgs = <<>>
    /\ resets = <<>>
    /\ resetAcked = FALSE
    /\ crashed = FALSE

\* ================================================================ the arguments

\* The values of input.sessionId: undefined, the empty string, a session id.
InputSessionIds == {NoSession, "", "S1"}
\* The values of input.prompt; a prompt can read like an argument.
Prompts == {"hello", "resume", "S1"}
\* The values of input.imagePaths: undefined or an array of at most MaxImages paths.
NoImages == <<"undefined">>
ImagePaths == {NoImages} \cup UNION {[1..k -> {"/tmp/a.jpg", "/tmp/b.jpg"}] : k \in 0..MaxImages}
\* relayConfig.codexModel: undefined or a model name.
NoModel == "<undefined>"
Models == {NoModel, "o3"}
Sandboxes == {"read-only", "workspace-write"}
OutputFilePath == "/tmp/codex-relay-x/assistant-message.txt"

TurnInputs ==
    [sessionId : InputSessionIds, prompt : Prompts, imagePaths : ImagePaths,
     codexModel : Models, codexSandbox : Sandboxes]

\* Mutant of HasSessionId: every defined session id counts, the empty string too.
HasSessionIdDefined(id) == id # NoSession

\* The test `input.sessionId ? ... : ...`: undefined and "" are falsy.
HasSessionId(id) == id # NoSession /\ id # ""

\* for (const imagePath of input.imagePaths ?? []) baseArgs.push("--image", imagePath)
RECURSIVE ImageArgs(_)
ImageArgs(paths) ==
    IF paths = NoImages \/ paths = <<>> THEN <<>>
    ELSE <<"--image", Head(paths)>> \o ImageArgs(Tail(paths))

\* The options pushed at lines 29-41.
OptionArgs(input, file) ==
    <<"--skip-git-repo-check", "--sandbox", input.codexSandbox, "--json",
      "--color", "never", "--output-last-message", file>>
    \o (IF input.codexModel # NoModel THEN <<"--model", input.codexModel>> ELSE <<>>)
    \o ImageArgs(input.imagePaths)

\* buildArgs(input, outputFile)
buildArgs(input, file) ==
    (IF HasSessionId(input.sessionId) THEN <<"exec", "resume">> ELSE <<"exec">>)
    \o OptionArgs(input, file)
    \o (IF HasSessionId(input.sessionId) THEN <<input.sessionId>> ELSE <<>>)
    \o <<input.prompt>>

\* buildArgs is not called.
InitArgsIdle ==
    /\ turnInput = [sessionId |-> NoSession, prompt |-> "hello", imagePaths |-> NoImages,
                    codexModel |-> NoModel, codexSandbox |-> "workspace-write"]
    /\ args = <<>>

\* runCodexTurn is called with one of the inputs under one of the configurations.
InitArgs ==
    /\ turnInput \in TurnInputs
    /\ args = <<>>

\* const args = buildArgs(input, outputFile)
CallBuildArgs ==
    /\ args = <<>>
    /\ args' = buildArgs(turnInput, OutputFilePath)
    /\ UNCHANGED <<turnInput, queueVars, turnVars, storeVars, chatVars, splitVars,
                   authVars>>

\* ================================================================ the reply chunker

\* The characters of a text: two letters, the space and the newline.
Letters == {"a", "b"}
Whitespace == {" ", "\n"}
Characters == Letters \cup Whitespace

\* The strings of at most n characters.
Texts(n) == UNION {[1..k -> Characters] : k \in 0..n}

\* String.prototype.trimStart, trimEnd and trim
RECURSIVE trimStart(_)
trimStart(str) ==
    IF str # <<>> /\ Head(str) \in Whitespace THEN trimStart(Tail(str)) ELSE str

RECURSIVE trimEnd(_)
trimEnd(str) ==
    IF str # <<>> /\ str[Len(str)] \in Whitespace
    THEN trimEnd(SubSeq(str, 1, Len(str) - 1)) ELSE str

trim(str) == trimEnd(trimStart(str))

\* str.lastIndexOf(ch, position): the greatest index (from 0) not above position at
\* which ch stands, -1 when there is none.
lastIndexOf(str, ch, position) ==
    LET found == {i \in 0..(Len(str) - 1) : i <= position /\ str[i + 1] = ch}
    IN IF found = {} THEN -1 ELSE CHOOSE i \in found : \A j \in found : j <= i

\* str.slice(from, to) and str.slice(from), indices from 0.
slice(str, from, to) == SubSeq(str, from + 1, IF to < Len(str) THEN to ELSE Len(str))
sliceFrom(str, from) == SubSeq(str, from + 1, Len(str))

\* Mutant of CutAt: the last newline wherever it stands.
CutAtAnyNewline(str, limit) ==
    LET cut == lastIndexOf(str, "\n", limit)
    IN IF cut < 0 THEN limit ELSE cut

\* Mutant of CutAt: a newline at exactly 0.6 * max is not taken.
CutAtPastThreshold(str, limit) ==
    LET cut == lastIndexOf(str, "\n", limit)
    IN IF 10 * cut <= 6 * limit THEN limit ELSE cut

\* let cut = remaining.lastIndexOf("\n", max); if (cut < max * 0.6) cut = max
CutAt(str, limit) ==
    LET cut == lastIndexOf(str, "\n", limit)
    IN IF 10 * cut < 6 * limit THEN limit ELSE cut

\* remaining.slice(0, cut).trim()
ChunkOf(str, cut) == trim(slice(str, 0, cut))

\* Mutant of RestOf: the character at the cut is dropped.
RestAfterCut(str, cut) == trimStart(sliceFrom(str, cut + 1))

\* remaining.slice(cut).trimStart()
RestOf(str, cut) == trimStart(sliceFrom(str, cut))

\* Mutant of Fits: a text one character too long passes.
FitsLoosely(str, limit) == Len(str) <= limit + 1

\* text.length <= max
Fits(str, limit) == Len(str) <= limit

\* Mutant of ShortText: the text is returned trimmed.
ShortTextTrimmed(str) == <<trim(str)>>

\* return [text]
ShortText(str) == <<str>>

\* ---- the allow-list of config.ts

\* The characters of ALLOWED_CHAT_IDS: a digit, the comma, the space and a letter.
Digits == {"1"}
RawCharacters == Digits \cup {",", " ", "x"}
\* process.env.ALLOWED_CHAT_IDS is undefined.
Unset == <<"undefined">>
RawValues == {Unset} \cup UNION {[1..k -> RawCharacters] : k \in 0..MaxRaw}

\* raw.split(",")
RECURSIVE Split(_)
Split(raw) ==
    LET commas == {i \in 1..Len(raw) : raw[i] = ","}
    IN IF commas = {} THEN <<raw>>
       ELSE LET first == CHOOSE i \in commas : \A j \in commas : i <= j
            IN <<SubSeq(raw, 1, first - 1)>> \o Split(SubSeq(raw, first + 1, Len(raw)))

\* The number a string of digits denotes.
RECURSIVE DecimalValue(_)
DecimalValue(str) ==
    IF str = <<>> THEN 0
    ELSE 10 * DecimalValue(SubSeq(str, 1, Len(str) - 1))
         + (IF str[Len(str)] = "1" THEN 1 ELSE 0)

\* Number(token.trim()) and Number.isFinite of it: the empty string is 0, a string
\* of digits is its value, anything else is NaN.
NumberOf(token) ==
    IF \A i \in 1..Len(token) : token[i] \in Digits
    THEN [finite |-> TRUE, value |-> DecimalValue(token)]
    ELSE [finite |-> FALSE, value |-> 0]

\* parseChatIdSet(raw): the empty set for an unset or blank value, else the finite
\* numbers among the trimmed tokens.
parseChatIdSet(raw) ==
    IF raw = Unset \/ trim(raw) = <<>> THEN {}
    ELSE LET tokens == Split(raw)
         IN {NumberOf(trim(tokens[i])).value :
                i \in {j \in 1..Len(tokens) : NumberOf(trim(tokens[j])).finite}}

\* isAuthorized(ctx), for an update of chat chatId
isAuthorized(chatId) ==
    IF allowedChatIds = {} THEN TRUE ELSE chatId \in allowedChatIds

InitAuthFields ==
    /\ allowedChatIds = parseChatIdSet(allowedRaw)
    /\ refused = {}
    /\ greeted = {}

\* ALLOWED_CHAT_IDS is not set: every chat is authorized.
InitAuthOpen == allowedRaw = Unset /\ InitAuthFields

\* relayConfig is built from an ALLOWED_CHAT_IDS of at most MaxRaw characters, or unset.
InitAuth == allowedRaw \in RawValues /\ InitAuthFields

InitSplitFields ==
    /\ remaining = <<>>
    /\ chunks = <<>>
    /\ iterations = 0
    /\ cuts = <<>>

\* splitForTelegram is not called.
InitSplitIdle ==
    /\ InitSplitFields
    /\ textArg = <<>>
    /\ max = 1
    /\ spc = "idle"

\* splitForTelegram(text, max) is called with a text of at most MaxText characters and
\* a max of 1 to MaxSegment.
InitSplit ==
    /\ InitSplitFields
    /\ textArg \in Texts(MaxText)
    /\ max \in 1..MaxSegment
    /\ spc = "called"

\* if (text.length <= max) return [text]; const chunks = []; let remaining = text
SplitCalled ==
    /\ spc = "called"
    /\ IF Fits(textArg, max)
       THEN /\ chunks' = ShortText(textArg)
            /\ spc' = "done"
            /\ UNCHANGED remaining
       ELSE /\ remaining' = textArg
            /\ spc' = "loop"
            /\ UNCHANGED chunks
    /\ UNCHANGED <<textArg, max, iterations, cuts, queueVars, turnVars, storeVars, chatVars,
                   authVars, argsVars>>

\* One run of the body of `while (remaining.length > max)`.
SplitIteration ==
    /\ spc = "loop"
    /\ Len(remaining) > max
    /\ LET cut == CutAt(remaining, max)
       IN /\ chunks' = Append(chunks, ChunkOf(remaining, cut))
          /\ remaining' = RestOf(remaining, cut)
          /\ cuts' = Append(cuts, cut)
    /\ iterations' = iterations + 1
    /\ UNCHANGED <<textArg, max, spc, queueVars, turnVars, storeVars, chatVars, authVars,
                   argsVars>>

\* The loop ends: if (remaining.length > 0) chunks.push(remaining); return chunks
SplitReturns ==
    /\ spc = "loop"
    /\ Len(remaining) <= max
    /\ chunks' = IF Len(remaining) > 0 THEN Append(chunks, remaining) ELSE chunks
    /\ spc' = "done"
    /\ UNCHANGED <<textArg, max, remaining, iterations, cuts, queueVars, turnVars, storeVars,
                   chatVars, authVars, argsVars>>

NextSplit ==
    \/ SplitCalled
    \/ SplitIteration
    \/ SplitReturns

InitOneSplit ==
    InitQueue /\ InitTurnIdle /\ InitStoreIdle /\ InitChatIdle /\ InitSplit /\ InitAuthOpen
    /\ InitArgsIdle

SpecSplit == InitOneSplit /\ [][NextSplit]_vars

\* The call runs to its end: every step of it is taken when it can be.
FairSpecSplit == SpecSplit /\ WF_vars(NextSplit)

NextArgs ==
    \/ CallBuildArgs

InitOneArgs ==
    InitQueue /\ InitTurnIdle /\ InitStoreIdle /\ InitChatIdle /\ InitSplitIdle
    /\ InitAuthOpen /\ InitArgs

SpecArgs == InitOneArgs /\ [][NextArgs]_vars

NextTurn ==
    \/ SpawnChild
    \/ \E line \in StdoutAlphabet : consumeLine(line, "stdout")
    \/ \E line \in StderrAlphabet : consumeLine(line, "stderr")
    \/ ChildError
    \/ ChildClose
    \/ ReadReply
    \/ RemoveTempDir
    \/ Decide

InitOneTurn ==
    InitQueue /\ InitTurn /\ InitStoreIdle /\ InitChatIdle /\ InitSplitIdle /\ InitAuthOpen
    /\ InitArgsIdle

SpecTurn == InitOneTurn /\ [][NextTurn]_vars

\* ================================================================ specifications

Init ==
    InitQueue /\ InitTurnIdle /\ InitStoreIdle /\ InitChatIdle /\ InitSplitIdle /\ InitAuthOpen
    /\ InitArgsIdle

\* Chat ids are opaque map keys: the chats are named in the order of their first message.
FreshChat == Cardinality({c \in Chats : submitted[c] # <<>>}) + 1

Next ==
    \/ \E c \in Chats : c <= FreshChat /\ enqueueByChat(c)
    \/ \E t \in TaskIds : StartTask(t)
    \/ \E t \in TaskIds : CallRunCodexTurn(t)
    \/ \E t \in TaskIds : TurnReturns(t)
    \/ \E t \in TaskIds : RetryReturns(t)
    \/ \E t \in TaskIds : SendDone(t)
    \/ \E t \in TaskIds : BodyThrows(t)
    \/ \E t \in TaskIds : CatchBlock(t)
    \/ \E t \in TaskIds : FinallyStep(t)
    \/ \E t \in TaskIds : SettleNext(t)

Spec == Init /\ [][Next]_vars

\* The event loop runs every promise reaction that is ready: the then-callback of a
\* settled promise, the .catch/.finally callbacks, the settling of `next`. Nothing
\* obliges a task body to finish.
FairSpec ==
    /\ Init
    /\ [][Next]_vars
    /\ \A t \in TaskIds : WF_vars(StartTask(t))
    /\ \A t \in TaskIds : WF_vars(FinallyStep(t))
    /\ \A t \in TaskIds : WF_vars(SettleNext(t))

\* ================================================================ SessionStore

\* get(chatId), set(chatId, sessionId) or clear(chatId) is called and runs up to the
\* first await inside loadOnce: `if (this.loaded) return; this.loaded = true;` and the
\* start of fs.readFile.
CallOp(o, kind, chatId, arg) ==
    /\ o = Len(ops) + 1
    /\ ops' = Append(ops, [kind |-> kind, key |-> KeyOf(chatId), arg |-> arg,
                           pc |-> IF loaded THEN "ready" ELSE "loading",
                           prev |-> NoOp, payload |-> EmptyMap, result |-> NoSession,
                           afterFailedLoad |-> (loadPhase = "failed")])
    /\ IF loaded
       THEN UNCHANGED <<loaded, loadPhase>>
       ELSE /\ loaded' = TRUE
            /\ loadPhase' = "reading"
    /\ UNCHANGED <<sessions, writeQueue, sessionsFile, nonStoreVars>>

\* The for loop of loadOnce: entries whose value is a non-empty string are set.
LoadEntries(map, parsed) ==
    [k \in Keys |-> IF parsed[k] \notin {NoSession, ""} THEN parsed[k] ELSE map[k]]

\* fs.readFile settles and loadOnce runs to its end in the operation that started it:
\* ENOENT is swallowed, any other failure (unreadable file, JSON.parse) is thrown to
\* the caller of get/set/clear.
LoadOnceReturns(o) ==
    /\ o <= Len(ops)
    /\ ops[o].pc = "loading"
    /\ CASE sessionsFile.kind = "json" ->
              /\ sessions' = LoadEntries(sessions, sessionsFile.map)
              /\ loadPhase' = "done"
              /\ ops' = [ops EXCEPT ![o].pc = "ready"]
         [] sessionsFile.kind = "missing" ->
              /\ loadPhase' = "done"
              /\ ops' = [ops EXCEPT ![o].pc = "ready"]
              /\ UNCHANGED sessions
         [] OTHER ->
              /\ loadPhase' = "failed"
              /\ ops' = [ops EXCEPT ![o].pc = "threw"]
              /\ UNCHANGED sessions
    /\ UNCHANGED <<loaded, writeQueue, sessionsFile, nonStoreVars>>

\* this.sessions after the statement of set / clear that follows `await this.loadOnce()`.
Mutate(map, kind, key, arg) ==
    IF kind = "set" THEN [map EXCEPT ![key] = arg] ELSE [map EXCEPT ![key] = NoSession]

\* The continuation after `await this.loadOnce()`: get returns this.sessions.get(key);
\* set / clear change the map and run persistQueued up to `await this.writeQueue`.
AfterLoadOnce(o) ==
    /\ o <= Len(ops)
    /\ ops[o].pc = "ready"
    /\ IF ops[o].kind = "get"
       THEN /\ ops' = [ops EXCEPT ![o].result = sessions[ops[o].key], ![o].pc = "done"]
            /\ UNCHANGED <<sessions, writeQueue>>
       ELSE /\ sessions' = Mutate(sessions, ops[o].kind, ops[o].key, ops[o].arg)
            /\ ops' = [ops EXCEPT ![o].prev = writeQueue, ![o].pc = "queued"]
            /\ writeQueue' = o
    /\ UNCHANGED <<loaded, loadPhase, sessionsFile, nonStoreVars>>

\* State of the promise persistQueued stored in this.writeQueue for operation p.
WriteState(p) ==
    IF p = NoOp THEN "fulfilled"
    ELSE CASE ops[p].pc = "done" -> "fulfilled"
           [] ops[p].pc = "writeFailed" -> "rejected"
           [] OTHER -> "pending"

\* Mutant of WriteSettled: the write callback does not wait for the queue.
WriteSettledAlways(p) == TRUE

\* this.writeQueue.then(callback): the reaction runs once the previous promise settled.
WriteSettled(p) == WriteState(p) # "pending"

\* The reaction of .then(callback) with no rejection handler: the callback starts
\* (fs.mkdir is issued) when the previous write was fulfilled; a rejected previous
\* write rejects this promise too and the callback never runs.
WriteStarts(o) ==
    /\ o <= Len(ops)
    /\ ops[o].pc = "queued"
    /\ WriteSettled(ops[o].prev)
    /\ ops' = [ops EXCEPT ![o].pc = IF WriteState(ops[o].prev) = "rejected"
                                    THEN "writeFailed" ELSE "mkdir"]
    /\ UNCHANGED <<loaded, loadPhase, sessions, writeQueue, sessionsFile, nonStoreVars>>

\* Mutant of Snapshot: only the entry of the operation's own key is written.
SnapshotOwnKey(map, key) == [k \in Keys |-> IF k = key THEN map[k] ELSE NoSession]

\* Object.fromEntries(this.sessions): every entry of the map when the callback resumes.
Snapshot(map, key) == map

\* fs.mkdir settles; on success the callback serializes the map and issues fs.writeFile.
MkdirReturns(o) ==
    /\ o <= Len(ops)
    /\ ops[o].pc = "mkdir"
    /\ \E ok \in BOOLEAN :
        ops' = IF ok
               THEN [ops EXCEPT ![o].payload = Snapshot(sessions, ops[o].key),
                                ![o].pc = "writing"]
               ELSE [ops EXCEPT ![o].pc = "writeFailed"]
    /\ UNCHANGED <<loaded, loadPhase, sessions, writeQueue, sessionsFile, nonStoreVars>>

\* fs.writeFile settles: the document is replaced, or the write failed; the promise of
\* the callback settles and with it `await this.writeQueue` and set / clear.
WriteFileReturns(o) ==
    /\ o <= Len(ops)
    /\ ops[o].pc = "writing"
    /\ \E ok \in BOOLEAN :
        IF ok
        THEN /\ sessionsFile' = Stringify(ops[o].payload)
             /\ ops' = [ops EXCEPT ![o].pc = "done"]
        ELSE /\ ops' = [ops EXCEPT ![o].pc = "writeFailed"]
             /\ UNCHANGED sessionsFile
    /\ UNCHANGED <<loaded, loadPhase, sessions, writeQueue, nonStoreVars>>

NextStore ==
    \/ \E o \in OpIds, c \in StoreChats : CallOp(o, "get", c, NoSession)
    \/ \E o \in OpIds, c \in StoreChats, id \in NewSessionIds : CallOp(o, "set", c, id)
    \/ \E o \in OpIds, c \in StoreChats : CallOp(o, "clear", c, NoSession)
    \/ \E o \in OpIds : LoadOnceReturns(o)
    \/ \E o \in OpIds : AfterLoadOnce(o)
    \/ \E o \in OpIds : WriteStarts(o)
    \/ \E o \in OpIds : MkdirReturns(o)
    \/ \E o \in OpIds : WriteFileReturns(o)

InitStoreOnly ==
    InitQueue /\ InitTurnIdle /\ InitStore /\ InitChatIdle /\ InitSplitIdle /\ InitAuthOpen
    /\ InitArgsIdle

SpecStore == InitStoreOnly /\ [][NextStore]_vars

\* ================================================================ authorization

\* await unauthorizedMessage(ctx); return
Refuse(chatId) ==
    /\ refused' = refused \cup {chatId}
    /\ UNCHANGED <<allowedRaw, allowedChatIds, greeted, queueVars, turnVars, storeVars,
                   chatVars, splitVars, argsVars>>

\* bot.on("message") for a message that is no command
OnMessage(chatId) ==
    IF isAuthorized(chatId) THEN enqueueByChat(chatId) ELSE Refuse(chatId)

\* bot.command(["new", "reset"]) up to the call of sessions.clear
OnReset(o, chatId) ==
    IF isAuthorized(chatId) THEN CallOp(o, "clear", chatId, NoSession) ELSE Refuse(chatId)

\* bot.command("session") up to the call of sessions.get
OnSession(o, chatId) ==
    IF isAuthorized(chatId) THEN CallOp(o, "get", chatId, NoSession) ELSE Refuse(chatId)

\* bot.command("start")
OnStart(chatId) ==
    IF isAuthorized(chatId)
    THEN /\ greeted' = greeted \cup {chatId}
         /\ UNCHANGED <<allowedRaw, allowedChatIds, refused, queueVars, turnVars,
                        storeVars, chatVars, splitVars, argsVars>>
    ELSE Refuse(chatId)

NextAuth ==
    \/ \E c \in Chats : OnMessage(c)
    \/ \E o \in OpIds, c \in StoreChats : OnReset(o, c)
    \/ \E o \in OpIds, c \in StoreChats : OnSession(o, c)
    \/ \E c \in Chats : OnStart(c)
    \/ \E t \in TaskIds : StartTask(t)
    \/ \E t \in TaskIds : CallRunCodexTurn(t)

InitConfigured ==
    InitQueue /\ InitTurnIdle /\ InitStoreIdle /\ InitChatIdle /\ InitSplitIdle /\ InitAuth
    /\ InitArgsIdle

SpecAuth == InitConfigured /\ [][NextAuth]_vars

\* ================================================================ one chat

\* The chat whose handlers run, as the key of the registry.
ChatKey == KeyOf(1)
Arrived(m) == m <= Len(msgs)
TaskSettled(m) == Arrived(m) /\ msgs[m].pc \in {"fulfilled", "rejected"}
\* The task body is between its first statement and the end of its finally block.
InBody(m) ==
    /\ Arrived(m)
    /\ msgs[m].pc \in {"payload", "get", "turn", "set", "retry", "set2", "send", "catch"}

\* The store has loaded its document (an earlier handler called it), with or without a
\* session of this chat; nothing is being written.
InitStoreLoaded ==
    /\ loaded = TRUE
    /\ loadPhase = "done"
    /\ sessions \in {EmptyMap, [EmptyMap EXCEPT ![ChatKey] = "S1"]}
    /\ sessionsFile = Stringify(sessions)
    /\ writeQueue = NoOp
    /\ ops = <<>>

otherStoreVars == <<loaded, loadPhase, writeQueue, sessionsFile, ops>>
offChatVars == <<queueVars, turnVars, otherStoreVars, splitVars, authVars, argsVars>>

\* ---- what the try block of the task body can throw. isError, code and message are
\* what JavaScript sees of the thrown value (instanceof Error, its code property, its
\* message); cause names the statement that threw it.
NoCode == "<undefined>"
Thrown(cause, isError, code, message) ==
    [cause |-> cause, isError |-> isError, code |-> code, message |-> message]
NothingThrown == Thrown("none", FALSE, NoCode, "")

\* downloadTelegramFile: throw new Error(`Failed to download Telegram file (${status}).`)
AttachmentError ==
    Thrown("attachment", TRUE, NoCode, "Failed to download Telegram file (404).")
\* child.once("error", reject): the error of spawn for a binary that does not exist.
SpawnError == Thrown("spawn", TRUE, "ENOENT", "spawn codex ENOENT")
\* throw new Error(details): details is the generic message, the last line of the
\* subprocess (which can be any text) or the message of its last error event (which
\* can be the empty string).
RuleErrors ==
    {Thrown("rule", TRUE, NoCode, details) :
        details \in {GenericMessage(2), "spawn codex ENOENT", ""}}
\* A failure no statement of the relay raises on purpose: fs.mkdtemp of runCodexTurn or
\* of downloadTelegramFile rejects.
UnexpectedError ==
    Thrown("unexpected", TRUE, "EACCES", "EACCES: permission denied, mkdtemp '/tmp/x'")
\* The durable write of sessions.set rejects.
WriteError ==
    Thrown("write", TRUE, "EACCES", "EACCES: permission denied, open 'sessions.json'")
\* transcribeAudio: throw new Error("Voice input requires GROQ_API_KEY.")
TranscriptionError ==
    Thrown("transcription", TRUE, NoCode, "Voice input requires GROQ_API_KEY.")
\* ctx.reply of sendResponse rejects.
SendError == Thrown("send", TRUE, NoCode, "Call to 'sendMessage' failed!")

\* What buildPayload (phase payload) and runCodexTurn or runFocusedRetry (phases turn
\* and retry) can throw.
ThrowableAt(phase) ==
    IF phase = "payload" THEN {AttachmentError, UnexpectedError}
    ELSE {SpawnError, UnexpectedError} \cup RuleErrors

UnknownError == "Unknown error while handling your request."

\* humanError(error)
humanError(error) ==
    IF error.isError /\ Trim(error.message) # "" THEN error.message ELSE UnknownError

\* `Error: ${humanError(error)}`, as the prefix and the text after it.
NoReply == <<>>
ErrorReply(error) == <<"Error: ", humanError(error)>>

\* bot.on("message"): a message that is no command arrives and its task is enqueued.
MessageArrives(m) ==
    /\ ~crashed
    /\ m = Len(msgs) + 1
    /\ msgs' = Append(msgs, [pc |-> "queued", priorSessionId |-> NoSession,
                             activeSessionId |-> NoSession, delivered |-> {},
                             afterReset |-> resetAcked, writeFailure |-> FALSE,
                             turns |-> 0, error |-> NothingThrown,
                             errorReply |-> NoReply, atEnqueue |-> sessions[ChatKey],
                             atStart |-> NoSession, dirs |-> 0, cleanup |-> 0,
                             removed |-> 0, recorded |-> NoSession])
    /\ resetAcked' = FALSE
    /\ UNCHANGED <<resets, crashed, sessions, offChatVars>>

\* bot.command(["new", "reset"]): the handler runs at once, outside the chat's queue,
\* up to `await sessions.clear(chatId)`; clear deletes the entry and awaits the write.
ResetArrives(r) ==
    /\ ~crashed
    /\ r = Len(resets) + 1
    /\ sessions' = Mutate(sessions, "clear", ChatKey, NoSession)
    /\ resets' = Append(resets, "clearing")
    /\ UNCHANGED <<msgs, resetAcked, crashed, offChatVars>>

\* sessions.clear settles: its write succeeded, or it failed and the handler throws to
\* bot.catch.
ClearReturns(r) ==
    /\ ~crashed
    /\ r <= Len(resets)
    /\ resets[r] = "clearing"
    /\ \E written \in BOOLEAN :
        resets' = [resets EXCEPT ![r] = IF written THEN "replying" ELSE "failed"]
    /\ UNCHANGED <<msgs, resetAcked, crashed, sessions, offChatVars>>

\* ctx.reply("Session reset. Next message starts a fresh Codex conversation.") settles.
ResetReplied(r) ==
    /\ ~crashed
    /\ r <= Len(resets)
    /\ resets[r] = "replying"
    /\ \E sent \in BOOLEAN :
        /\ resets' = [resets EXCEPT ![r] = IF sent THEN "acked" ELSE "failed"]
        /\ resetAcked' = (sent \/ resetAcked)
    /\ UNCHANGED <<msgs, crashed, sessions, offChatVars>>

\* enqueueByChat: the task starts when every earlier task of the chat has settled; it
\* sets the typing interval, sends the first typing action and calls buildPayload.
StartBody(m) ==
    /\ ~crashed
    /\ Arrived(m)
    /\ msgs[m].pc = "queued"
    /\ \A k \in MsgIds : k < m => TaskSettled(k)
    /\ msgs' = [msgs EXCEPT ![m].pc = "payload", ![m].atStart = sessions[ChatKey]]
    /\ UNCHANGED <<resets, resetAcked, crashed, sessions, offChatVars>>

\* `void ctx.api.sendChatAction(chatId, "typing")`, at the start of the body and on
\* every tick of the interval, rejects: nothing handles the rejection and Node
\* terminates the process (its default for unhandled rejections).
TypingRejects(m) ==
    /\ ~crashed
    /\ InBody(m)
    /\ crashed' = TRUE
    /\ UNCHANGED <<msgs, resets, resetAcked, sessions, offChatVars>>

\* Inside buildPayload, downloadTelegramFile returns the path of the file it wrote
\* into a new directory of fs.mkdtemp; the directory is pushed to buildPayload's local
\* cleanupTargets.
DownloadReturns(m) ==
    /\ ~crashed
    /\ Arrived(m)
    /\ msgs[m].pc = "payload"
    /\ msgs[m].dirs < MaxDownloads
    /\ msgs' = [msgs EXCEPT ![m].dirs = @ + 1]
    /\ UNCHANGED <<resets, resetAcked, crashed, sessions, offChatVars>>

\* buildPayload returned, `cleanup = payload.cleanupTargets`, and saveChatMessage
\* returned; sessions.get(chatId) is called.
PayloadBuilt(m) ==
    /\ ~crashed
    /\ Arrived(m)
    /\ msgs[m].pc = "payload"
    /\ msgs' = [msgs EXCEPT ![m].pc = "get", ![m].cleanup = msgs[m].dirs]
    /\ UNCHANGED <<resets, resetAcked, crashed, sessions, offChatVars>>

\* Mutant of SessionsGet: the mapping as it was when the task was enqueued.
SessionsGetAtEnqueue(m) == msgs[m].atEnqueue

\* await sessions.get(chatId), called by the task body of message m
SessionsGet(m) == sessions[ChatKey]

\* Mutant of AfterGet: get removes the entry it returns.
AfterGetRemoves(map, key) == [map EXCEPT ![key] = NoSession]

\* this.sessions after get(chatId): get only reads the map.
AfterGet(map, key) == map

\* const priorSessionId = await sessions.get(chatId); the prompt context is built and
\* runCodexTurn is called with sessionId: priorSessionId.
GetReturns(m) ==
    /\ ~crashed
    /\ Arrived(m)
    /\ msgs[m].pc = "get"
    /\ msgs' = [msgs EXCEPT ![m].priorSessionId = SessionsGet(m), ![m].pc = "turn",
                            ![m].turns = @ + 1]
    /\ sessions' = AfterGet(sessions, ChatKey)
    /\ UNCHANGED <<resets, resetAcked, crashed, offChatVars>>

\* result.sessionId ?? priorSessionId, retry.sessionId ?? activeSessionId
OrElse(value, otherwise) == IF value # NoSession THEN value ELSE otherwise

\* Mutant of AwaitsSet: the session id is never stored.
AwaitsSetNever(active) == FALSE

\* if (activeSessionId) { await sessions.set(chatId, activeSessionId); }
AwaitsSet(active) == active # NoSession

\* runCodexTurn (phase "turn") or runFocusedRetry (phase "retry") returned a result
\* whose sessionId is the one it was called with or one of a thread.started event;
\* `if (activeSessionId) await sessions.set(chatId, activeSessionId)`: set stores the
\* id in the map and awaits the write. Without an id the body goes on: to the focused
\* retry when the reply looks like a capability reply, else to the reply.
TurnResult(m) ==
    /\ ~crashed
    /\ Arrived(m)
    /\ msgs[m].pc \in {"turn", "retry"}
    /\ \E resultSessionId \in NewSessionIds \cup {NoSession}, retry \in BOOLEAN :
        LET called == IF msgs[m].pc = "turn" THEN msgs[m].priorSessionId
                      ELSE msgs[m].activeSessionId
            active == OrElse(OrElse(resultSessionId, called), called)
        IN IF AwaitsSet(active)
           THEN /\ sessions' = Mutate(sessions, "set", ChatKey, active)
                /\ msgs' = [msgs EXCEPT ![m].activeSessionId = active,
                                        ![m].pc = IF @ = "turn" THEN "set" ELSE "set2"]
           ELSE /\ UNCHANGED sessions
                /\ msgs' = [msgs EXCEPT ![m].activeSessionId = active,
                                        ![m].turns = IF msgs[m].pc = "turn" /\ retry
                                                     THEN @ + 1 ELSE @,
                                        ![m].pc = IF @ = "turn" /\ retry
                                                  THEN "retry" ELSE "send"]
    /\ UNCHANGED <<resets, resetAcked, crashed, offChatVars>>

\* sessions.set settles: its write succeeded and the body goes on, or the write failed
\* and set throws into the catch block.
SetReturns(m) ==
    /\ ~crashed
    /\ Arrived(m)
    /\ msgs[m].pc \in {"set", "set2"}
    /\ \E written \in BOOLEAN, retry \in BOOLEAN :
        msgs' = IF written
                THEN [msgs EXCEPT ![m].recorded = msgs[m].activeSessionId,
                                  ![m].turns = IF msgs[m].pc = "set" /\ retry
                                               THEN @ + 1 ELSE @,
                                  ![m].pc = IF @ = "set" /\ retry THEN "retry" ELSE "send"]
                ELSE [msgs EXCEPT ![m].pc = "catch", ![m].writeFailure = TRUE,
                                  ![m].error = WriteError]
    /\ UNCHANGED <<resets, resetAcked, crashed, sessions, offChatVars>>

\* buildPayload, saveChatMessage, runCodexTurn or runFocusedRetry throws; inside
\* buildPayload, transcribeAudio can throw once the voice file was downloaded.
StepThrows(m) ==
    /\ ~crashed
    /\ Arrived(m)
    /\ msgs[m].pc \in {"payload", "turn", "retry"}
    /\ \E error \in ThrowableAt(msgs[m].pc)
                     \cup (IF msgs[m].pc = "payload" /\ msgs[m].dirs > 0
                           THEN {TranscriptionError} ELSE {}) :
        msgs' = [msgs EXCEPT ![m].pc = "catch", ![m].error = error]
    /\ UNCHANGED <<resets, resetAcked, crashed, sessions, offChatVars>>

\* saveChatMessage and sendResponse: every chunk was sent, or a ctx.reply threw after
\* some chunks or none; then the finally block: cleanupTargets(cleanup) removes the
\* directories the task's `cleanup` array names.
SendReturns(m) ==
    /\ ~crashed
    /\ Arrived(m)
    /\ msgs[m].pc = "send"
    /\ \E sent \in BOOLEAN, partly \in BOOLEAN :
        msgs' = [msgs EXCEPT
                    ![m].delivered = IF sent \/ partly THEN @ \cup {"reply"} ELSE @,
                    ![m].error = IF sent THEN @ ELSE SendError,
                    ![m].removed = IF sent THEN msgs[m].cleanup ELSE @,
                    ![m].pc = IF sent THEN "fulfilled" ELSE "catch"]
    /\ UNCHANGED <<resets, resetAcked, crashed, sessions, offChatVars>>

\* catch (error) { await ctx.reply(`Error: ${humanError(error)}`) } and the finally
\* block: the error message is sent and the task's promise is fulfilled, or ctx.reply
\* throws and the promise is rejected.
CatchReply(m) ==
    /\ ~crashed
    /\ Arrived(m)
    /\ msgs[m].pc = "catch"
    /\ \E sent \in BOOLEAN :
        msgs' = [msgs EXCEPT
                    ![m].delivered = IF sent THEN @ \cup {"error"} ELSE @,
                    ![m].errorReply = IF sent THEN ErrorReply(msgs[m].error) ELSE @,
                    ![m].removed = msgs[m].cleanup,
                    ![m].pc = IF sent THEN "fulfilled" ELSE "rejected"]
    /\ UNCHANGED <<resets, resetAcked, crashed, sessions, offChatVars>>

NextChat ==
    \/ \E m \in MsgIds : MessageArrives(m)
    \/ \E r \in ResetIds : ResetArrives(r)
    \/ \E r \in ResetIds : ClearReturns(r)
    \/ \E r \in ResetIds : ResetReplied(r)
    \/ \E m \in MsgIds : StartBody(m)
    \/ \E m \in MsgIds : TypingRejects(m)
    \/ \E m \in MsgIds : DownloadReturns(m)
    \/ \E m \in MsgIds : PayloadBuilt(m)
    \/ \E m \in MsgIds : GetReturns(m)
    \/ \E m \in MsgIds : TurnResult(m)
    \/ \E m \in MsgIds : SetReturns(m)
    \/ \E m \in MsgIds : StepThrows(m)
    \/ \E m \in MsgIds : SendReturns(m)
    \/ \E m \in MsgIds : CatchReply(m)

InitOneChat ==
    InitQueue /\ InitTurnIdle /\ InitStoreLoaded /\ InitChatIdle /\ InitSplitIdle /\ InitAuthOpen
    /\ InitArgsIdle

SpecChat == InitOneChat /\ [][NextChat]_vars

\* ================================================================ claims: the queue

\* task() has been called and the promise it returned is not settled.
Executing(t) == pc[t] \in BodyPhases
\* The promise returned by task() is settled.
Settled(t) == pc[t] \in ChainPhases
Started(t) == Executing(t) \/ Settled(t)
InTurn(t) == pc[t] \in {"turn", "retryTurn"}
SameChat(t1, t2) == t1 # t2 /\ pc[t1] # "unused" /\ pc[t2] # "unused" /\ chatOf[t1] = chatOf[t2]
Positions(c) == 1..Len(submitted[c])
\* Number of runCodexTurn invocations of task t.
Invocations(t) ==
    IF pc[t] = "unused" THEN 0
    ELSE Cardinality({i \in 1..Len(turnLog[chatOf[t]]) : turnLog[chatOf[t]][i] = t})
PosIn(seq, x) == CHOOSE i \in 1..Len(seq) : seq[i] = x
IsPrefix(s1, s2) == Len(s1) <= Len(s2) /\ \A i \in 1..Len(s1) : s1[i] = s2[i]

\* C1: for every chat at most one enqueued task is executing at any time, and a task
\* has started only if every task enqueued earlier for its chat has settled.
C1_OneTaskPerChat ==
    /\ \A t1, t2 \in TaskIds : SameChat(t1, t2) /\ Executing(t1) => ~Executing(t2)
    /\ \A c \in Chats : \A i, j \in Positions(c) :
          i < j /\ Started(submitted[c][j]) => Settled(submitted[c][i])

\* A task that was enqueued behind an unfinished chain of its chat is executing.
C1_Witness ==
    \E t \in TaskIds : Executing(t) /\ previous[t] # NoTask /\ Settled(previous[t])

\* C2: the tasks of a chat start in exactly the order of their enqueueByChat calls: the
\* start order is a prefix of the submission order.
C2_FifoPerChat == \A c \in Chats : IsPrefix(startLog[c], submitted[c])

\* Three tasks of one chat, each enqueued before its predecessor finished, all started.
C2_Witness ==
    \E c \in Chats :
        /\ Len(startLog[c]) >= 3
        /\ previous[submitted[c][2]] = submitted[c][1]
        /\ previous[submitted[c][3]] = submitted[c][2]

\* C3: no task is dropped: once every earlier task of the chat has settled, the i-th
\* task submitted for the chat is eventually started (as the i-th to start).
C3_NoTaskDropped ==
    \A c \in Chats, i \in 1..MaxTasks :
        (i <= Len(submitted[c]) /\ \A j \in 1..(i - 1) : Settled(submitted[c][j]))
        ~> (i <= Len(startLog[c]) /\ startLog[c][i] = submitted[c][i])

\* A task enqueued behind two unfinished chains (messages arriving faster than turns
\* complete) has started.
C3_Witness ==
    \E t \in TaskIds :
        /\ Started(t)
        /\ previous[t] # NoTask
        /\ previous[previous[t]] # NoTask
        /\ previous[previous[t]] # previous[t]

\* C4 as stated: when the N tasks of a chat are done, runCodexTurn was invoked exactly
\* once per submission, in submission order, and no two invocations overlapped.
C4_ExactlyOncePerSubmission ==
    /\ \A c \in Chats :
          (\A i \in Positions(c) : pc[submitted[c][i]] = "done") => turnLog[c] = submitted[c]
    /\ \A t1, t2 \in TaskIds : SameChat(t1, t2) /\ InTurn(t1) => ~InTurn(t2)

\* C4 amended: a task invokes runCodexTurn once when its payload is built and once more
\* when the focused retry is taken, so 0, 1 or 2 times; the invocations of a chat are in
\* submission order and never overlap.
C4_TurnsPerSubmission ==
    /\ \A t \in TaskIds :
          /\ pc[t] \in {"unused", "queued", "payload"} => Invocations(t) = 0
          /\ pc[t] = "turn" => Invocations(t) = 1
          /\ pc[t] = "retryTurn" => Invocations(t) = 2
          /\ pc[t] = "send" => Invocations(t) \in {1, 2}
          /\ Invocations(t) <= 2
    /\ \A c \in Chats : \A i, j \in 1..Len(turnLog[c]) :
          i < j => PosIn(submitted[c], turnLog[c][i]) <= PosIn(submitted[c], turnLog[c][j])
    /\ \A t1, t2 \in TaskIds : SameChat(t1, t2) /\ InTurn(t1) => ~InTurn(t2)

\* All tasks of a chat are done; one never reached runCodexTurn, another ran it twice.
C4_Witness ==
    \E c \in Chats :
        /\ Len(submitted[c]) >= 2
        /\ \A i \in Positions(c) : pc[submitted[c][i]] = "done"
        /\ \E i, j \in Positions(c) :
              Invocations(submitted[c][i]) = 0 /\ Invocations(submitted[c][j]) = 2

\* C5: chats are not serialized against each other: a queued task whose chat has no
\* unfinished earlier chain can start, whatever the tasks of other chats are doing.
C5_ChatsIndependent ==
    \A t \in TaskIds :
        (pc[t] = "queued" /\ \A e \in TaskIds : SameChat(e, t) /\ e < t => pc[e] = "done")
        => CanStart(t)

\* Tasks of two different chats are executing at the same time.
C5_Witness ==
    \E t1, t2 \in TaskIds :
        Executing(t1) /\ Executing(t2) /\ chatOf[t1] # chatOf[t2]

\* C6: a rejected task does not reject the promise enqueueByChat stored (nothing
\* propagates, no unhandled rejection), and the task chained behind it can still start.
C6_FailureIsolated ==
    /\ \A t \in TaskIds : nextPromise[t] # "rejected"
    /\ \A t \in TaskIds :
          (pc[t] = "queued" /\ previous[t] # NoTask /\ pc[previous[t]] = "done"
             /\ taskResult[previous[t]] = "rejected")
          => CanStart(t)

\* A task is executing whose predecessor in the chain was rejected.
C6_Witness ==
    \E t \in TaskIds :
        Executing(t) /\ previous[t] # NoTask /\ taskResult[previous[t]] = "rejected"

\* C7: when the .finally callback of every task of a chat has run, the chat has no
\* entry in inFlightByChat; a task enqueued on a chat without entry gets an entry and
\* can start.
C7_DrainedChatEvicted ==
    /\ \A c \in Chats :
          (\A i \in Positions(c) : pc[submitted[c][i]] \in {"finalized", "done"})
          => inFlightByChat[c] = NoTask
    /\ \A t \in TaskIds :
          (pc[t] = "queued" /\ previous[t] = NoTask)
          => inFlightByChat[chatOf[t]] # NoTask /\ CanStart(t)

\* A chat was drained and evicted, and a task enqueued afterwards is executing.
C7_Witness ==
    \E c \in Chats : \E i \in Positions(c) :
        i > 1 /\ previous[submitted[c][i]] = NoTask /\ Executing(submitted[c][i])

\* The most recently enqueued task of a chat.
LastEnqueued(c) == submitted[c][Len(submitted[c])]
PendingOrRunning(t) == pc[t] = "queued" \/ Executing(t)

\* C35: a chat with a pending or running task has an entry in inFlightByChat; an entry
\* is always the promise of the most recently enqueued task of the chat; and that entry
\* stays until the .finally callback of that very task ran (an earlier task that
\* settles neither evicts nor replaces it).
C35_EntryIsLatestTask ==
    \A c \in Chats :
        /\ (\E t \in TaskIds : chatOf[t] = c /\ PendingOrRunning(t))
              => inFlightByChat[c] # NoTask
        /\ inFlightByChat[c] # NoTask
              => submitted[c] # <<>> /\ inFlightByChat[c] = LastEnqueued(c)
        /\ (submitted[c] # <<>> /\ pc[LastEnqueued(c)] \notin {"finalized", "done"})
              => inFlightByChat[c] = LastEnqueued(c)

\* An earlier task of a chat ran its .finally callback while a later task of the chat
\* was still queued, and the later task's entry is in the map.
C35_Witness ==
    \E t \in TaskIds :
        /\ pc[t] = "queued"
        /\ previous[t] # NoTask
        /\ pc[previous[t]] \in {"finalized", "done"}
        /\ inFlightByChat[chatOf[t]] = t

\* ================================================================ claims: one turn

Finished == tpc \in {"returned", "threw"}
\* runCodexTurn threw from the decision rule (the subprocess closed, the directory is gone).
FailedByRule == tpc = "threw" /\ exitCode # NoExit /\ tempDir = "removed"

\* C8 as stated: when runCodexTurn has returned or thrown, the temporary directory it
\* created has been removed.
C8_TempDirRemoved == Finished /\ tempDir # "none" => tempDir = "removed"

EventAt(i) == ParseEvent(Trim(consumed[i][1]))
StructuredAt(i) ==
    /\ EventAt(i).ok
    /\ \/ EventAt(i).type = "error" /\ EventAt(i).message # NotString
       \/ EventAt(i).type = "turn.failed" /\ EventAt(i).errorMessage # NotString
StructuredMessage(i) ==
    IF EventAt(i).type = "error" THEN EventAt(i).message ELSE EventAt(i).errorMessage
StructuredIdx == {i \in 1..Len(consumed) : StructuredAt(i)}
NonEmptyIdx(source) ==
    {i \in 1..Len(consumed) : consumed[i][2] = source /\ Trim(consumed[i][1]) # ""}
Latest(S) == CHOOSE i \in S : \A j \in S : j <= i

\* C10: when runCodexTurn fails by the decision rule, its message is the most recent
\* structured error message, else the most recent non-empty stderr line, else the most
\* recent non-empty stdout line, else the generic message with the exit code.
C10_ErrorMessagePriority ==
    FailedByRule =>
        thrown = IF StructuredIdx # {} THEN StructuredMessage(Latest(StructuredIdx))
                 ELSE IF NonEmptyIdx("stderr") # {}
                      THEN Trim(consumed[Latest(NonEmptyIdx("stderr"))][1])
                 ELSE IF NonEmptyIdx("stdout") # {}
                      THEN Trim(consumed[Latest(NonEmptyIdx("stdout"))][1])
                 ELSE GenericMessage(exitCode)

\* A failure with two different structured errors and lines on both streams.
C10_Witness ==
    /\ FailedByRule
    /\ Len(jsonErrors) >= 2
    /\ jsonErrors[1] # jsonErrors[2]
    /\ stderrLines # <<>>
    /\ stdoutLines # <<>>

\* The run of consumeLine over a sequence of <<line, source>> pairs, from the state
\* SpawnChild leaves: what the turn has collected when the subprocess closes.
Collected(input) ==
    [sessionId |-> InitialSessionId(input), jsonErrors |-> <<>>,
     stderrLines |-> <<>>, stdoutLines |-> <<>>]

ConsumeInto(acc, entry) ==
    LET trimmed == Trim(entry[1]) IN
    IF trimmed = "" THEN acc
    ELSE [sessionId |-> CaptureSession(acc.sessionId, ParseEvent(trimmed)),
          jsonErrors |-> PushJsonErrors(acc.jsonErrors, ParseEvent(trimmed)),
          stderrLines |-> PushLine(acc.stderrLines, trimmed, entry[2], "stderr"),
          stdoutLines |-> PushLine(acc.stdoutLines, trimmed, entry[2], "stdout")]

RECURSIVE ConsumeAll(_, _)
ConsumeAll(acc, entries) ==
    IF entries = <<>> THEN acc
    ELSE ConsumeAll(ConsumeInto(acc, Head(entries)), Tail(entries))

\* What runCodexTurn gives its caller for these lines, exit status and final message.
OutcomeOf(input, entries, code, file) ==
    LET acc == ConsumeAll(Collected(input), entries)
        text == ReadReplyOf(file)
    IN IF TurnFails(code, text)
       THEN [failed |-> TRUE, reply |-> "<none>", sessionId |-> NoSession,
             message |-> Details(acc.jsonErrors, acc.stderrLines, acc.stdoutLines, code)]
       ELSE [failed |-> FALSE, reply |-> ReplyOrFallback(text),
             sessionId |-> acc.sessionId, message |-> "<none>"]

\* What this run gave its caller.
Outcome ==
    IF tpc = "threw"
    THEN [failed |-> TRUE, reply |-> "<none>", sessionId |-> NoSession, message |-> thrown]
    ELSE [failed |-> FALSE, reply |-> returned.reply, sessionId |-> returned.sessionId,
          message |-> "<none>"]

Decided == tpc = "returned" \/ FailedByRule
Malformed(entry) == ~ParseEvent(Trim(entry[1])).ok
ValidOnly(entries) == SelectSeq(entries, LAMBDA e : ~Malformed(e))

\* C11 as stated: a run that also read malformed or non-JSON lines has the same outcome
\* (success or failure, reply, session id, error message) as the run that read only its
\* valid structured-event lines, with the same exit status and final-message file.
C11_MalformedLinesIgnored ==
    Decided => Outcome = OutcomeOf(inputSessionId, ValidOnly(consumed), exitCode, outputFile)

\* C11 amended: malformed or non-JSON lines change neither success or failure, nor the
\* reply, nor the session id; they leave the error message unchanged when a structured
\* error message was read, and otherwise the message is the most recent non-empty line
\* of stderr, else of stdout, malformed lines included.
C11_MalformedLinesOnlyInFallbackMessage ==
    LET alone == OutcomeOf(inputSessionId, ValidOnly(consumed), exitCode, outputFile) IN
    Decided =>
        /\ Outcome.failed = alone.failed
        /\ Outcome.reply = alone.reply
        /\ Outcome.sessionId = alone.sessionId
        /\ StructuredIdx # {} => Outcome.message = alone.message
        /\ Outcome.failed /\ StructuredIdx = {} /\ NonEmptyIdx("stderr") # {} =>
               Outcome.message = Trim(consumed[Latest(NonEmptyIdx("stderr"))][1])

\* A failed turn that read a non-JSON line between a structured error and another event.
C11_Witness ==
    /\ FailedByRule
    /\ Len(consumed) = 3
    /\ ~Malformed(consumed[1]) /\ StructuredAt(1)
    /\ Malformed(consumed[2]) /\ Trim(consumed[2][1]) # ""
    /\ ~Malformed(consumed[3])
    /\ thrown = StructuredMessage(Latest(StructuredIdx))

\* The thread.started events of this turn.
StartedIdx ==
    {i \in 1..Len(consumed) :
        /\ EventAt(i).ok
        /\ EventAt(i).type = "thread.started"
        /\ EventAt(i).thread_id # NotString}

\* C12 as stated: the result carries a sessionId only if a thread.started event was
\* observed during this turn.
C12_SessionIdOnlyFromEvent ==
    tpc = "returned" /\ returned.sessionId # NoSession => StartedIdx # {}

\* C12 amended: the result carries a sessionId only if a thread.started event was
\* observed during this turn or the input carried one; with no such event the result's
\* sessionId is the input's, absent when the input had none.
C12_SessionIdFromEventOrInput ==
    tpc = "returned" =>
        /\ returned.sessionId # NoSession => StartedIdx # {} \/ inputSessionId # NoSession
        /\ StartedIdx = {} => returned.sessionId = inputSessionId

\* A turn resumed with a session id returned it though no thread.started event was read.
C12_Witness ==
    /\ tpc = "returned"
    /\ inputSessionId = "S0"
    /\ consumed # <<>>
    /\ StartedIdx = {}
    /\ returned.sessionId = "S0"

\* C13: with several thread.started events in one turn, the returned sessionId is the
\* id of the last one.
C13_LastSessionWins ==
    tpc = "returned" /\ StartedIdx # {} =>
        returned.sessionId = EventAt(Latest(StartedIdx)).thread_id

\* Two thread.started events with different ids, then a return.
C13_Witness ==
    /\ tpc = "returned"
    /\ Cardinality(StartedIdx) >= 2
    /\ \E i, j \in StartedIdx : i < j /\ EventAt(i).thread_id # EventAt(j).thread_id

\* C30: when the subprocess exits with status 0 and the final-message file is missing
\* or blank, runCodexTurn returns the fallback placeholder as the reply; the reply of a
\* returned result is never the empty string.
C30_EmptyReplyBecomesFallback ==
    tpc = "returned" =>
        /\ returned.reply # ""
        /\ exitCode = 0 /\ ReadReplyOf(outputFile) = "" => returned.reply = FallbackReply

\* A turn that exited with status 0 over a file of white space has returned.
C30_Witness ==
    /\ tpc = "returned"
    /\ exitCode = 0
    /\ outputFile = " \n"
    /\ returned.reply = FallbackReply

\* ================================================================ claims: the store

Called == 1..Len(ops)
Mutation(o) == ops[o].kind \in {"set", "clear"}
\* What get(key) returns once operation o has been applied: this.sessions.get(key).
Expected(o) == IF ops[o].kind = "set" THEN ops[o].arg ELSE NoSession
\* No other set or clear of the same key has been called.
OnlyMutationOfKey(o) ==
    \A p \in Called \ {o} : Mutation(p) => ops[p].key # ops[o].key
\* The map of a new SessionStore over this document after its loadOnce.
Reload(doc) == IF doc.kind = "json" THEN LoadEntries(EmptyMap, doc.map) ELSE EmptyMap
WriteQueueIdle == \A o \in Called : ops[o].pc \notin {"queued", "mkdir", "writing"}

\* C15 as stated: after set(k, s) has completed get(k) returns s, and after clear(k)
\* has completed get(k) returns no mapping, from this store and from a new store that
\* loads the same document.
C15_RoundTrip ==
    \A o \in Called :
        Mutation(o) /\ ops[o].pc = "done" /\ OnlyMutationOfKey(o) =>
            /\ sessions[ops[o].key] = Expected(o)
            /\ Reload(sessionsFile)[ops[o].key] = Expected(o)

\* C16: at most one write of the durable document is in progress at any time, every
\* write serializes the whole in-memory map as it is when the write runs, and the
\* document only ever becomes what one such write serialized.
C16_SingleWriterWholeSnapshots ==
    [][ /\ \A o, p \in 1..Len(ops') :
               /\ ops'[o].pc \in {"mkdir", "writing"}
               /\ ops'[p].pc \in {"mkdir", "writing"}
               => o = p
        /\ \A o \in Called :
               ops[o].pc = "mkdir" /\ ops'[o].pc = "writing" => ops'[o].payload = sessions
        /\ sessionsFile' # sessionsFile =>
               \E o \in Called : /\ ops[o].pc = "writing" /\ ops'[o].pc = "done"
                                 /\ sessionsFile' = Stringify(ops[o].payload) ]_vars

\* One write is in progress with both keys in its snapshot while the next one waits.
C16_Witness ==
    \E o, p \in Called :
        /\ ops[o].pc = "writing"
        /\ \A k \in Keys : ops[o].payload[k] # NoSession
        /\ ops[p].pc = "queued"
        /\ ops[p].prev = o

\* C17 as stated: when every write so far succeeded and the write queue is idle, the
\* durable document equals the in-memory map.
C17_DocumentFollowsMap ==
    /\ \E o \in Called : Mutation(o) /\ ops[o].pc = "done"
    /\ \A o \in Called : ops[o].pc # "writeFailed"
    /\ WriteQueueIdle
    /\ loadPhase # "reading"
    => sessionsFile = Stringify(sessions)

\* C19 as stated: once the first load has failed for a reason other than a missing
\* file, no get, set or clear called later completes successfully.
C19_FailedLoadIsFatal ==
    \A o \in Called : ops[o].afterFailedLoad => ops[o].pc # "done"

\* The operation is past its `await this.loadOnce()`: it has read or changed the map.
PastLoadOnce(o) == ops[o].pc \in {"queued", "mkdir", "writing", "writeFailed", "done"}

\* C36 as stated: no get, set or clear reads or changes the in-memory map while the
\* initial load is still reading; a get of a key the durable document maps returns that
\* mapping; and the value of a set is not overwritten by the loaded value.
C36_OperationsWaitForLoad ==
    /\ (\E o \in Called : PastLoadOnce(o)) => loadPhase # "reading"
    /\ \A o \in Called :
          /\ ops[o].kind = "get" /\ ops[o].pc = "done"
          /\ \A p \in Called : ~Mutation(p)
          /\ sessionsFile.kind = "json"
          /\ sessionsFile.map[ops[o].key] \notin {NoSession, ""}
          => ops[o].result = sessionsFile.map[ops[o].key]
    /\ \A o \in Called :
          ops[o].kind = "set" /\ PastLoadOnce(o) /\ OnlyMutationOfKey(o)
          => sessions[ops[o].key] = ops[o].arg

\* C37 as stated: whatever happened to the writes before it, a set or clear that waits
\* in the write queue leaves it by running its own write (fs.mkdir is issued), and
\* when that write succeeds the operation completes and the durable document is the
\* map its write serialized.
C37_FailedWriteKeepsQueueAlive ==
    [][\A o \in Called :
          /\ ops[o].pc = "queued" /\ ops'[o].pc # "queued" => ops'[o].pc = "mkdir"
          /\ ops[o].pc = "writing" /\ sessionsFile' # sessionsFile
                => ops'[o].pc = "done" /\ sessionsFile' = Stringify(ops[o].payload)]_vars

\* ================================================================ claims: one chat

\* C14 as stated: the first message that arrives after a /new or /reset was
\* acknowledged has its turn run without a prior session id.
C14_FreshSessionAfterReset ==
    \A m \in 1..Len(msgs) : msgs[m].afterReset => msgs[m].priorSessionId = NoSession

\* C18 as stated: when the durable write of sessions.set fails after the turn has
\* completed, the chat is sent the reply and no error message, and the in-memory
\* mapping holds the new session id when the task ends.
C18_WriteFailureKeepsReply ==
    \A m \in 1..Len(msgs) :
        msgs[m].writeFailure /\ TaskSettled(m) =>
            /\ msgs[m].delivered = {"reply"}
            /\ (\A k \in 1..Len(msgs) : k > m => msgs[k].pc = "queued") /\ resets = <<>>
               => sessions[ChatKey] = msgs[m].activeSessionId

\* C20 as stated: every failure inside the task body is caught inside the task, which
\* sends the chat an error message, and no failure terminates the process.
C20_FailuresCaughtAndReported ==
    /\ ~crashed
    /\ \A m \in 1..Len(msgs) :
           TaskSettled(m) => msgs[m].pc = "fulfilled" /\ msgs[m].delivered # {}

EndedInFailure(m) ==
    TaskSettled(m) /\ "error" \in msgs[m].delivered /\ "reply" \notin msgs[m].delivered
\* Nothing but the task of message m can have changed the mapping since it started.
OnlyTaskSince(m) ==
    resets = <<>> /\ \A k \in 1..Len(msgs) : k > m => msgs[k].pc = "queued"

C38_AttachmentDirsRemoved ==
    \A m \in 1..Len(msgs) : TaskSettled(m) => msgs[m].removed = msgs[m].dirs

\* The first call of runCodexTurn of the task returned a reply.
FirstTurnReturned(m) == msgs[m].turns = 2 \/ msgs[m].error.cause \in {"none", "send", "write"}

\* C39 as stated: a task whose first runCodexTurn returned a reply, whose registry
\* writes succeeded and whose messages were sent has sent the chat a reply, whatever
\* the focused retry did.
C39_ReplyDespiteRetryFailure ==
    \A m \in 1..Len(msgs) :
        /\ TaskSettled(m)
        /\ FirstTurnReturned(m)
        /\ msgs[m].error.cause \notin {"send", "write"}
        /\ msgs[m].delivered # {}
        => "reply" \in msgs[m].delivered

Distinguishable(e1, e2) ==
    e1.isError # e2.isError \/ e1.code # e2.code \/ e1.message # e2.message

\* C21 as stated: when the subprocess cannot be started, runCodexTurn throws an error
\* that differs from every error of the decision rule, the chat is sent an error
\* message, and the task ends as a fulfilled promise, so that later turns run.
C21_SpawnFailureReportedAndIsolated ==
    \A m \in 1..Len(msgs) :
        msgs[m].error.cause = "spawn" /\ TaskSettled(m) =>
            /\ \A e \in RuleErrors : Distinguishable(msgs[m].error, e)
            /\ "error" \in msgs[m].delivered
            /\ msgs[m].pc = "fulfilled"

\* C22 as stated: for an error no statement of the relay raises on purpose, the text
\* sent to the chat is the fixed diagnostic and not the message of the error.
C22_UnexpectedErrorGetsGenericText ==
    \A m \in 1..Len(msgs) :
        msgs[m].error.cause \in {"unexpected", "write", "send"}
        /\ msgs[m].errorReply # NoReply =>
            /\ msgs[m].errorReply = <<"Error: ", UnknownError>>
            /\ msgs[m].errorReply[2] # msgs[m].error.message

\* C23 as stated: when the download of an attachment fails, runCodexTurn is never
\* called for the message, no reply is sent, and the chat is sent an error message.
C23_AttachmentFailureFailsTurn ==
    \A m \in 1..Len(msgs) :
        msgs[m].error.cause = "attachment" /\ TaskSettled(m) =>
            /\ msgs[m].turns = 0
            /\ "reply" \notin msgs[m].delivered
            /\ "error" \in msgs[m].delivered

\* ================================================================ claims: the reply chunker

SplitDone == spc = "done"
Segments == 1..Len(chunks)
AllWhitespace(str) == \A i \in 1..Len(str) : str[i] \in Whitespace
NonWhitespace(str) == SelectSeq(str, LAMBDA c : c \notin Whitespace)
StartsWith(str, prefix) ==
    Len(prefix) <= Len(str) /\ SubSeq(str, 1, Len(prefix)) = prefix
RECURSIVE Concat(_)
Concat(segs) == IF segs = <<>> THEN <<>> ELSE Head(segs) \o Concat(Tail(segs))
\* str is the segments in order, each as it stands, with white space and nothing else
\* before, between and after them.
RECURSIVE Interleaves(_, _)
Interleaves(str, segs) ==
    IF segs = <<>> THEN AllWhitespace(str)
    ELSE \E k \in 0..Len(str) :
            /\ AllWhitespace(SubSeq(str, 1, k))
            /\ StartsWith(sliceFrom(str, k), Head(segs))
            /\ Interleaves(sliceFrom(str, k + Len(Head(segs))), Tail(segs))
CeilDiv(a, b) == (a + b - 1) \div b

\* C24: every segment splitForTelegram has collected or returned is at most max
\* characters long.
C24_SegmentsWithinMax == \A i \in Segments : Len(chunks[i]) <= max

\* A call has returned several segments, one of them of exactly max characters.
C24_Witness ==
    /\ SplitDone
    /\ Len(chunks) >= 2
    /\ \E i \in Segments : Len(chunks[i]) = max

\* C25 as stated: a text of at most max characters yields exactly one segment, the
\* text with its leading and trailing white space trimmed.
C25_ShortTextTrimmed ==
    SplitDone /\ Len(textArg) <= max => chunks = <<trim(textArg)>>

\* C25, amended: a text of at most max characters yields exactly one segment, the
\* text itself, white space at its ends included.
C25_ShortTextUnchanged ==
    SplitDone /\ Len(textArg) <= max => chunks = <<textArg>>

\* A call with a short text that has white space at an end has returned.
C25_Witness ==
    /\ SplitDone
    /\ Len(textArg) <= max
    /\ trim(textArg) # textArg
    /\ trim(textArg) # <<>>

\* C26 as stated: for a text that is not empty, no segment is empty.
C26_NoEmptySegment ==
    textArg # <<>> => \A i \in Segments : chunks[i] # <<>>

\* C27: the call returns; the body of the loop runs at most
\* ceil(length / (0.6 * max)) times, and every run of it shortens remaining by at
\* least 0.6 * max characters.
C27_TerminatesWithinBound ==
    /\ [][SplitIteration => 10 * (Len(remaining) - Len(remaining')) >= 6 * max]_vars
    /\ [](iterations <= CeilDiv(10 * Len(textArg), 6 * max))
    /\ <>SplitDone

\* A call has returned after its loop ran more than once.
C27_Witness == SplitDone /\ iterations >= 2

\* C28: the segments hold every character of the text that is no white space, once
\* and in the order of the text, and each segment stands in the text as it is: only
\* white space before, between and after the segments is left out.
C28_OnlyBoundaryWhitespaceRemoved ==
    SplitDone =>
        /\ NonWhitespace(Concat(chunks)) = NonWhitespace(textArg)
        /\ Interleaves(textArg, chunks)

\* A call has returned segments of which one has white space inside and left out
\* white space between two of them.
C28_Witness ==
    /\ SplitDone
    /\ Len(chunks) >= 2
    /\ \E i \in Segments : \E j \in 2..(Len(chunks[i]) - 1) : chunks[i][j] \in Whitespace
    /\ Len(Concat(chunks)) < Len(textArg)

\* The index of the last newline of remaining at or before max, -1 without one.
LastNewline == lastIndexOf(remaining, "\n", max)

\* C34 as stated: every run of the loop body cuts at the last newline at or before
\* max when that newline lies past 0.6 * max, and at max otherwise, so that a newline
\* at or below 0.6 * max is never the cut.
C34_NewlineCutPastThreshold ==
    [][SplitIteration =>
        cuts' = Append(cuts, IF 10 * LastNewline > 6 * max THEN LastNewline ELSE max)]_vars

\* C34, amended: every run of the loop body cuts at the last newline at or before max
\* when that newline lies at or past 0.6 * max, and at max otherwise, so that a
\* newline below 0.6 * max is never the cut.
C34_NewlineCutFromThreshold ==
    [][SplitIteration =>
        cuts' = Append(cuts, IF 10 * LastNewline >= 6 * max THEN LastNewline ELSE max)]_vars

\* The loop has cut at a newline that stands at exactly 0.6 * max.
C34_Witness ==
    \E i \in 1..Len(cuts) : cuts[i] < max /\ 10 * cuts[i] = 6 * max

\* ================================================================ claims: authorization

\* ALLOWED_CHAT_IDS has a value that is not blank.
Configured == allowedRaw # Unset /\ trim(allowedRaw) # <<>>
\* The chat id is one of the comma-separated entries of the value.
Listed(chatId) ==
    \E i \in 1..Len(Split(allowedRaw)) :
        NumberOf(trim(Split(allowedRaw)[i])) = [finite |-> TRUE, value |-> chatId]

\* C29 as stated: when ALLOWED_CHAT_IDS has a value, no update of a chat that is not
\* listed in it enqueues a task, starts a turn or calls the session registry.
C29_UnlistedChatNeverServed ==
    Configured =>
        \A c \in Chats :
            ~Listed(c) =>
                /\ submitted[c] = <<>>
                /\ turnLog[c] = <<>>
                /\ \A o \in 1..Len(ops) : ops[o].key # KeyOf(c)
                /\ c \notin greeted

\* ================================================================ claims: the arguments

Built == args # <<>>
Resumes(argv) == Len(argv) >= 2 /\ argv[1] = "exec" /\ argv[2] = "resume"
PriorSessionIdPresent == turnInput.sessionId \notin {NoSession, ""}

\* C31: buildArgs returns a resume invocation that carries the prior session id
\* exactly when the input has a session id that is not empty, else a new-session
\* invocation of `exec`, the options and the prompt alone; the prompt is the last
\* argument in both.
C31_ResumeIffPriorSession ==
    Built =>
        /\ args[Len(args)] = turnInput.prompt
        /\ args[1] = "exec"
        /\ Resumes(args) <=> PriorSessionIdPresent
        /\ PriorSessionIdPresent => args[Len(args) - 1] = turnInput.sessionId
        /\ ~PriorSessionIdPresent =>
              Len(args) = Len(OptionArgs(turnInput, OutputFilePath)) + 2

\* buildArgs has returned for an input whose session id is the empty string and whose
\* prompt reads `resume`.
C31_Witness ==
    /\ Built
    /\ turnInput.sessionId = ""
    /\ turnInput.prompt = "resume"

====
